---- MODULE Spec2Model ----
(***************************************************************************)
(* A model of rolland's time-domain solver (rolland/deflection.py,         *)
(* rolland/excitation.py), of the grid sizing it consumes                  *)
(* (rolland/discretization.py) and of the track builder                    *)
(* (rolland/track.py, rolland/arrangement.py).                             *)
(*                                                                         *)
(* Units.  Lengths are integers in millimetres, times are integers in      *)
(* 1e-5 s, velocities are integers in m/s.  Python's Decimal arithmetic is *)
(* exact, so a Decimal is the integer number of millimetres it denotes.    *)
(*                                                                         *)
(* Deflections are real vectors; the model keeps, for every column of the  *)
(* buffer, whether it is known to be the zero vector ("zero"), holds a     *)
(* computed vector nothing is known about ("any"), or was never assigned   *)
(* since numpy.empty allocated it ("uninit").  What an unassigned column   *)
(* holds is not defined by numpy: the variable fill draws it.              *)
(***************************************************************************)
EXTENDS Integers, Sequences, FiniteSets, TLC

VARIABLES
    pc,                 \* position of the modelled constructor / generator
    err,                \* the exception that ended it, "" when none
    excit,              \* Excitation instance: kind, x_excit, amp, velocity
    discr,              \* Discretization fields: dt, req_simt, nt, sim_t, dx, nx
    l_track,            \* Track.l_track
    force,              \* DeflectionEBBVertic.force (samples 0..nt-1)
    defl,               \* the deflection buffer, column -> "zero" | "any" | "uninit"
    fill,               \* what numpy.empty left in unassigned columns
    excitation_index,   \* DeflectionEBBVertic.excitation_index
    excitation_now,     \* calc_deflection's local excitation_now
    f,                  \* calc_rightside_crank_nicolson's local f (row -> sample)
    t,                  \* calc_deflection's loop variable
    nsolves,            \* number of factoriz.solve calls so far
    nwrites,            \* column -> number of assignments defl[:, c] = u
    reads,              \* columns read by the latest step
    wrote,              \* column written by the latest step, -1 when none
    track,              \* the track's traits: cls, num_mount, distance, pad, sleeper
    mount_prop,         \* Track.mount_prop: keys in insertion order, key -> tuple
    x,                  \* calc_mount_prop's Decimal x
    gens,               \* the generators zip() draws from, in argument order
    ncalc,              \* number of calc_mount_prop calls started
    gen,                \* a generator returned by Arrangement.generate
    yielded,            \* the items drawn from gen so far
    slab_set,           \* SlabSingleRailTrack.__init__ has set self.slab.ms
    glob,               \* process-wide state: numpy's and random's module-level
                        \* generators, the Slab instance of SlabSingleRailTrack.slab
    post                \* a Response / TDR object: its index lists and rows read

solverVars == <<excit, discr, force, defl, fill, excitation_index,
                excitation_now, f, t, nsolves, nwrites, reads, wrote, post>>
trackVars == <<track, mount_prop, x, gens, ncalc, slab_set>>
arrVars == <<gen, yielded>>

vars == <<pc, err, l_track, glob, solverVars, trackVars, arrVars>>

----------------------------------------------------------------------------
(* Bounds and inputs of the solver runs *)

MaxReqSimt == 160
MaxXSteps == 7
RefDt == 2
RefSigma == 7
MoveDivisor == 50

ReqSimtSet == {0, 3, 5, 60, MaxReqSimt}
DxMinSet == {100, 180}
LTrackSet == {400, 1000}
XExcitScalars == {-250} \cup {k * 150 : k \in 0..MaxXSteps}
XExcitLists == {<<300>>, <<300, 300>>, <<150, 400>>}
XExcitSet == {[isList |-> FALSE, elems |-> <<xe>>] : xe \in XExcitScalars}
             \cup {[isList |-> TRUE, elems |-> l] : l \in XExcitLists}
AmpSet == {0, 1}
VelocitySet == {60, 100}
\* the ramp_fraction argument, in percent
RampFractionSet == {5, 10}

----------------------------------------------------------------------------
(* Arithmetic helpers *)

Abs(a) == IF a < 0 THEN -a ELSE a

\* Python's int(a / b) for b > 0: truncation towards zero.
TruncDiv(a, b) == IF a >= 0 THEN a \div b ELSE -((-a) \div b)

\* Python's round(n / d) for n >= 0, d > 0: ties go to the even integer.
RoundHalfEven(n, d) ==
    LET q == n \div d
        r == n % d
    IN  IF 2 * r < d THEN q
        ELSE IF 2 * r > d THEN q + 1
        ELSE IF q % 2 = 0 THEN q ELSE q + 1

----------------------------------------------------------------------------
(* DiscretizationEBBVertic.calc_grid *)

CalcNt(req_simt, dt) == TruncDiv(req_simt, dt)

\* dx = 0.6 / (0.6 // dx_min); the inputs are chosen so that the quotient is
\* a whole number of millimetres.
\* 0.6 // dx_min
SleeperStepsCeil(dx_min) == (600 + dx_min - 1) \div dx_min
SleeperSteps(dx_min) == 600 \div dx_min
CalcDx(dx_min) == 600 \div SleeperSteps(dx_min)

CalcNx(ltrack, dx) == TruncDiv(ltrack, dx) + 1

CalcGrid(dt, req_simt, dx_min, ltrack) ==
    LET nt == CalcNt(req_simt, dt)
        dx == CalcDx(dx_min)
    IN  [dt |-> dt, req_simt |-> req_simt, nt |-> nt, sim_t |-> nt * dt,
         dx |-> dx, nx |-> CalcNx(ltrack, dx)]

----------------------------------------------------------------------------
(* Excitation.force *)

\* GaussianImpulse.force at sample i of t = linspace(0, sim_t, nt).  The
\* sample is a * tg / sigma^2 * exp(-tg^2 / sigma^2): the model keeps
\* a * tg * (nt - 1), the sample divided by a strictly positive factor, which
\* has the sample's sign and is zero exactly when the sample is.
GaussianSample(a, i, nt, dt) ==
    IF nt = 1 THEN a * (0 - 4 * RefSigma)
    ELSE a * (i * nt * dt - 4 * RefSigma * (nt - 1))

\* ConstantForce.force: ramp_length = int(0.05 * n).
RampLength(n) == n \div 20

\* the denominator the model's samples of ConstantForce.force are over
ForceUnit(n) == IF RampLength(n) = 0 THEN 1 ELSE RampLength(n)

\* Sample i of ConstantForce.force, as a multiple of 1 / max(ramp_length, 1):
\* force_amplitude * (i / ramp_length) on the ramp, force_amplitude after it.
ConstantSample(amp, i, n) ==
    LET L == RampLength(n)
    IN  IF i < L THEN amp * i
        ELSE amp * (IF L = 0 THEN 1 ELSE L)

ForceSeries(e, d) ==
    [i \in 1..d.nt |->
        IF e.kind = "GaussianImpulse"
        THEN GaussianSample(e.amp, i - 1, d.nt, d.dt)
        ELSE ConstantSample(e.amp, i - 1, d.nt)]

\* force[t] with Python's 0-based index
ForceAt(t_) == force[t_ + 1]

----------------------------------------------------------------------------
(* DeflectionEBBVertic *)

Rows == 0..(2 * discr.nx - 1)
ZeroVector == [r \in Rows |-> 0]

\* numpy's index check for a vector of length n: -n <= i < n, negative
\* indices count from the end.
IndexInBounds(i, n) == -n <= i /\ i < n
IndexRow(i, n) == IF i < 0 THEN i + n ELSE i

\* The column is the zero vector.
IsZeroColumn(c) == defl[c] = "zero" \/ (defl[c] = "uninit" /\ fill = "zero")

\* Excitation index of one position: int(x / dx)
ExcitationIndexOf(xe) == TruncDiv(xe, discr.dx)

\* excitation_index + round(t / 50), for an integer excitation_index
ExcitationNow(idx, t_) == idx + RoundHalfEven(t_, MoveDivisor)

\* the rows calc_rightside_crank_nicolson assigns, for an integer index or
\* a list of indices
IndexList(now) == IF now.isList THEN now.elems ELSE <<now.elems[1]>>

\* f after the assignments f[idx] = force[t] (every index in bounds)
CalcRightsideFOnes(now, t_) ==
    [r \in Rows |->
        IF \E k \in 1..Len(IndexList(now)) :
               IndexRow(IndexList(now)[k], 2 * discr.nx) = r
        THEN ForceAt(t_) ELSE 1]
CalcRightsideF(now, t_) ==
    [r \in Rows |->
        IF \E k \in 1..Len(IndexList(now)) :
               IndexRow(IndexList(now)[k], 2 * discr.nx) = r
        THEN ForceAt(t_) ELSE 0]

\* column that step t assigns
WriteColumnSame(t_) == t_
WriteColumn(t_) == t_ + 1
\* columns that step t reads (u1, u0)
ReadColumns(t_) == {t_, t_ - 1}

\* A u = B u1 + C u0 + dt^2 / (mr dx) f with A non-singular: u is the zero
\* vector when u1, u0 and f are.
SolveColumn(t_, fvec) ==
    IF IsZeroColumn(t_) /\ IsZeroColumn(t_ - 1) /\ fvec = ZeroVector
    THEN "zero" ELSE "any"

\* the variables of the track builder and of the generators, unused by a
\* solver run
\* no Response or TDR object
PostIdle == post = [cls |-> "none"]

\* The process-wide state at the start: the module-level generators as the
\* imports left them, the class attribute slab = Slab() with ms = 0.0.
GlobInit == glob = [np_random |-> "initial", py_random |-> "initial", slab_ms |-> 0]

TrackIdle ==
    /\ track = [cls |-> "none"]
    /\ mount_prop = [keys |-> <<>>, val |-> <<>>]
    /\ x = 0
    /\ gens = <<>>
    /\ ncalc = 0
    /\ slab_set = FALSE
ArrIdle ==
    /\ gen = [kind |-> "none"]
    /\ yielded = <<>>

Init ==
    /\ pc = "new"
    /\ err = ""
    /\ \E k \in {"GaussianImpulse", "ConstantForce"}, xe \in XExcitSet,
          a \in AmpSet, v \in VelocitySet, rf \in RampFractionSet :
          /\ (k = "GaussianImpulse" => v = 60 /\ rf = 5)
          /\ excit = [kind |-> k, x_excit |-> xe, amp |-> a, velocity |-> v,
                      ramp_fraction |-> rf]
    /\ l_track \in LTrackSet
    /\ \E rs \in ReqSimtSet, dm \in DxMinSet :
          discr = CalcGrid(RefDt, rs, dm, l_track)
    /\ fill \in {"zero", "garbage"}
    /\ force = <<>>
    /\ defl = <<>>
    /\ excitation_index = [isList |-> FALSE, elems |-> <<0>>]
    /\ excitation_now = [isList |-> FALSE, elems |-> <<0>>]
    /\ f = <<>>
    /\ t = 0
    /\ nsolves = 0
    /\ nwrites = <<>>
    /\ reads = {}
    /\ wrote = -1
    /\ PostIdle
    /\ GlobInit
    /\ TrackIdle
    /\ ArrIdle

\* calc_force
CalcForce ==
    /\ pc = "new"
    /\ force' = ForceSeries(excit, discr)
    /\ glob' = IF excit.kind = "ConstantForce"
               THEN [glob EXCEPT !.np_random = "seed(42)"] ELSE glob
    /\ pc' = "forced"
    /\ UNCHANGED <<err, excit, discr, l_track, defl, fill, excitation_index,
                   excitation_now, f, t, nsolves, nwrites, reads, wrote,
                   trackVars, arrVars, post>>

\* initialize_start_values: defl = empty((2 nx, nt + 1));
\* defl[:, 0:2] = zeros((2 nx, 2)).  The assignment needs two columns.
InitializeStartValues ==
    /\ pc = "forced"
    /\ IF discr.nt + 1 < 2
       THEN /\ pc' = "failed"
            /\ err' = "ValueError"
            /\ UNCHANGED <<defl, nwrites>>
       ELSE /\ pc' = "initialized"
            /\ defl' = [c \in 0..discr.nt |-> IF c < 2 THEN "zero" ELSE "uninit"]
            /\ nwrites' = [c \in 0..discr.nt |-> 0]
            /\ UNCHANGED err
    /\ UNCHANGED <<excit, discr, l_track, force, fill, excitation_index,
                   excitation_now, f, t, nsolves, reads, wrote, trackVars,
                   arrVars, post, glob>>

\* calc_deflection up to the loop: the excitation index (or indices) and
\* the LU factorization of A
CalcDeflectionStart ==
    /\ pc = "initialized"
    /\ excitation_index' =
          [isList |-> excit.x_excit.isList,
           elems |-> [k \in 1..Len(excit.x_excit.elems) |->
                         ExcitationIndexOf(excit.x_excit.elems[k])]]
    /\ t' = 1
    /\ pc' = "loop"
    /\ UNCHANGED <<err, excit, discr, l_track, force, defl, fill,
                   excitation_now, f, nsolves, nwrites, reads, wrote,
                   trackVars, arrVars, post, glob>>

\* one iteration of "for t in range(1, nt)" with an integer
\* excitation_index that is in bounds
StepSolve ==
    /\ pc = "loop" /\ t < discr.nt
    /\ ~excitation_index.isList
    /\ LET now == [isList |-> FALSE,
                   elems |-> <<ExcitationNow(excitation_index.elems[1], t)>>]
           fvec == CalcRightsideF(now, t)
       IN  /\ IndexInBounds(now.elems[1], 2 * discr.nx)
           /\ excitation_now' = now
           /\ f' = fvec
           /\ defl' = [defl EXCEPT ![WriteColumn(t)] = SolveColumn(t, fvec)]
           /\ nwrites' = [nwrites EXCEPT ![WriteColumn(t)] = @ + 1]
           /\ reads' = ReadColumns(t)
           /\ wrote' = WriteColumn(t)
    /\ nsolves' = nsolves + 1
    /\ t' = t + 1
    /\ UNCHANGED <<pc, err, excit, discr, l_track, force, fill,
                   excitation_index, trackVars, arrVars, post, glob>>

\* the iteration raises IndexError: f[excitation_index] is out of bounds
StepIndexError ==
    /\ pc = "loop" /\ t < discr.nt
    /\ ~excitation_index.isList
    /\ LET now == [isList |-> FALSE,
                   elems |-> <<ExcitationNow(excitation_index.elems[1], t)>>]
       IN  /\ ~IndexInBounds(now.elems[1], 2 * discr.nx)
           /\ excitation_now' = now
    /\ f' = ZeroVector
    /\ pc' = "failed"
    /\ err' = "IndexError"
    /\ UNCHANGED <<excit, discr, l_track, force, defl, fill,
                   excitation_index, t, nsolves, nwrites, reads, wrote,
                   trackVars, arrVars, post, glob>>

\* the iteration raises TypeError: excitation_index is a list and
\* "list + int" is not defined
StepTypeError ==
    /\ pc = "loop" /\ t < discr.nt
    /\ excitation_index.isList
    /\ pc' = "failed"
    /\ err' = "TypeError"
    /\ UNCHANGED <<excit, discr, l_track, force, defl, fill,
                   excitation_index, excitation_now, f, t, nsolves, nwrites,
                   reads, wrote, trackVars, arrVars, post, glob>>

\* the loop is exhausted: calc_deflection returns defl
CalcDeflectionReturn ==
    /\ pc = "loop" /\ t >= discr.nt
    /\ pc' = "done"
    /\ UNCHANGED <<err, excit, discr, l_track, force, defl, fill,
                   excitation_index, excitation_now, f, t, nsolves, nwrites,
                   reads, wrote, trackVars, arrVars, post, glob>>

Next ==
    \/ CalcForce
    \/ InitializeStartValues
    \/ CalcDeflectionStart
    \/ StepSolve
    \/ StepIndexError
    \/ StepTypeError
    \/ CalcDeflectionReturn

Spec == Init /\ [][Next]_vars

----------------------------------------------------------------------------
(* Properties of the solver runs *)

\* floor(a / b) for b > 0
FloorDiv(a, b) == a \div b

ScalarRun == ~excit.x_excit.isList
ListRun == excit.x_excit.isList
\* a loop iteration has computed its excitation node
Stepped == nsolves >= 1 \/ err = "IndexError"
\* the step number n of the latest iteration
LastStep == IF err = "IndexError" THEN t ELSE t - 1
\* the force series has been computed and is zero at every step
ZeroForce == pc # "new" /\ \A i \in DOMAIN force : force[i] = 0
Allocated == DOMAIN defl = 0..discr.nt
\* the (single) excitation position lies on the track
OnTrack == 0 <= excit.x_excit.elems[1] /\ excit.x_excit.elems[1] <= l_track

\* C1: for a stationary Gaussian impulse at x_excit the node the solver
\* applies the force at is floor(x_excit / dx) at every step n = 1..nt-1
\* (stated for the positions on the track).
C1_StationaryIndexFixed ==
    (excit.kind = "GaussianImpulse" /\ ScalarRun /\ OnTrack /\ Stepped)
        => excitation_now.elems[1] = FloorDiv(excit.x_excit.elems[1], discr.dx)

\* C2: at every step the node the force is written to lies in [0, nx)
\* (indices outside are clamped), never in a sleeper row nx..2nx-1, and the
\* run never fails with an out-of-range index.
C2_ForceRowInRail ==
    /\ err # "IndexError"
    /\ (ScalarRun /\ nsolves >= 1)
          => IndexRow(excitation_now.elems[1], 2 * discr.nx) \in 0..(discr.nx - 1)

\* the sum of the indicator vectors of the loads' nodes, scaled by force[n]
SumOfIndicators(now, n) ==
    [r \in Rows |->
        ForceAt(n) * Cardinality({k \in 1..Len(now.elems) :
                                     IndexRow(now.elems[k], 2 * discr.nx) = r})]

\* C3: with a list of start positions the run completes and at every step n
\* the right-hand side holds the sum of the loads' indicator vectors times
\* f[n] (stated for the runs whose loop has at least one step, nt >= 2).
C3_MultipleLoadsSummed ==
    (ListRun /\ discr.nt >= 2)
        => /\ pc # "failed"
           /\ nsolves >= 1 => f = SumOfIndicators(excitation_now, LastStep)

\* k_move = floor(dx / (v dt)), dx in mm, v in m/s, dt in 1e-5 s
KMove(dx, v, dt) == (dx * 100) \div (v * dt)

\* C4: for a constant moving force the node at step n is
\* floor(x0 / dx) + round(n / k_move), k_move = floor(dx / (v dt)) (stated
\* for the start positions on the track).
C4_IndexFollowsVelocity ==
    (excit.kind = "ConstantForce" /\ ScalarRun /\ OnTrack /\ Stepped)
        => excitation_now.elems[1] =
              FloorDiv(excit.x_excit.elems[1], discr.dx)
              + RoundHalfEven(LastStep, KMove(discr.dx, excit.velocity, discr.dt))

\* C5: a run performs one solve per step n = 1..nt-1 in increasing order;
\* step n reads only columns n and n-1, both defined before it (zeroed at
\* allocation or written by an earlier step), and writes only column n+1;
\* a completed run has made nt-1 solves and has written every column 2..nt
\* exactly once.
C5_OneSolvePerStepInOrder ==
    /\ pc \in {"loop", "done"} =>
          /\ nsolves = t - 1
          /\ \A c \in 0..discr.nt :
                nwrites[c] = (IF 2 <= c /\ c <= nsolves + 1 THEN 1 ELSE 0)
          /\ nsolves >= 1 =>
                /\ reads = {nsolves, nsolves - 1}
                /\ wrote = nsolves + 1
                /\ \A c \in reads : c < 2 \/ (c < wrote /\ nwrites[c] = 1)
    /\ pc = "done" =>
          /\ nsolves = discr.nt - 1
          /\ \A c \in 2..discr.nt : nwrites[c] = 1 /\ defl[c] # "uninit"

C5_Witness == pc = "done" /\ discr.nt >= 30 /\ nsolves = discr.nt - 1

\* C6: every simulation, also with nt = 0 or 1, gets a buffer of nt + 1
\* columns whose columns 0 and 1 are zero.
C6_BufferShapeAndZeroStart ==
    pc \notin {"new", "forced"}
        => /\ err # "ValueError"
           /\ Allocated
           /\ IsZeroColumn(0) /\ IsZeroColumn(1)

C15_RampFollowsFraction ==
    (excit.kind = "ConstantForce" /\ pc # "new")
        => /\ Len(force) = discr.nt
           /\ LET L == FloorDiv(excit.ramp_fraction * discr.nt, 100)
                  u == ForceUnit(discr.nt)
              IN  \A i \in 0..(discr.nt - 1) :
                     IF i < L THEN ForceAt(i) * L = excit.amp * i * u
                     ELSE ForceAt(i) = excit.amp * u

\* C17: no operation of a simulation writes process-wide state: every step
\* leaves the module-level random generators of numpy and random and the
\* class-level Slab record as they were.
C17_NoProcessWideState == [][glob' = glob]_vars

\* C28: in every run the node index at which force is applied starts at
\* floor(x_excit / dx) at step n = 1 and, from one step to the next, stays
\* or advances by exactly one node: the load never moves backwards and
\* never skips a node.
C28_LoadAdvancesByNodes ==
    [][(pc = "loop" /\ ScalarRun /\ t' = t + 1)
          => IF t = 1
             THEN excitation_now'.elems[1]
                     = FloorDiv(excit.x_excit.elems[1], discr.dx)
             ELSE excitation_now'.elems[1] - excitation_now.elems[1] \in {0, 1}]_vars

----------------------------------------------------------------------------
(* Arrangement.generate (rolland/arrangement.py)                           *)
(*                                                                         *)
(* An Arrangement is [kind, isList, elems]: item is the list elems, or the *)
(* single object elems[1] when isList is FALSE.  A generator is            *)
(* [arr, num_mount, c, j, at]: the arrangement, the argument of generate,  *)
(* the counter c, the index j of the list item yielded last, and the       *)
(* statement it is suspended at ("start", "for": the yield of the for      *)
(* loop, "else": the yield of the else branch, "end").                     *)

MaxMount == 4
MaxCalc == 2

ItemLists == {<<>>, <<1>>, <<1, 2>>}
PadArrangements ==
    {[kind |-> k, isList |-> TRUE, elems |-> l] :
        k \in {"Periodic", "Random"}, l \in ItemLists}
    \cup {[kind |-> k, isList |-> FALSE, elems |-> <<1>>] :
            k \in {"Periodic", "Random"}}
SleeperArrangements ==
    {[kind |-> "Periodic", isList |-> TRUE, elems |-> <<1, 2>>],
     [kind |-> "Periodic", isList |-> FALSE, elems |-> <<1>>]}
DistanceLists == {<<>>, <<600>>, <<650, 500>>, <<0, 500>>, <<500, -700>>}
DistanceArrangements ==
    {[kind |-> k, isList |-> TRUE, elems |-> l] :
        k \in {"Periodic", "Random"}, l \in DistanceLists}
    \cup {[kind |-> k, isList |-> FALSE, elems |-> <<600>>] :
            k \in {"Periodic", "Random"}}
SimpleDistances == {0, 500, 600}

Generate(arr, num_mount) ==
    [arr |-> arr, num_mount |-> num_mount, c |-> 0, j |-> 0, at |-> "start"]

\* The outcome of next() on a PeriodicArrangement generator: it yields an
\* item, raises StopIteration ("stop"), or never returns ("hang": the for
\* loop over an empty list yields nothing and leaves c unchanged).
PeriodicResume(g) ==
    LET c1 == IF g.at \in {"for", "else"} THEN g.c + 1 ELSE g.c
        L == Len(g.arr.elems)
    IN  IF g.at = "for" /\ g.j < L
        THEN {[out |-> "yield", item |-> g.arr.elems[g.j + 1],
               g |-> [g EXCEPT !.c = c1, !.j = g.j + 1]]}
        ELSE IF g.at = "end" \/ ~(c1 < g.num_mount)
        THEN {[out |-> "stop", item |-> 0, g |-> [g EXCEPT !.c = c1, !.at = "end"]]}
        ELSE IF ~g.arr.isList
        THEN {[out |-> "yield", item |-> g.arr.elems[1],
               g |-> [g EXCEPT !.c = c1, !.at = "else"]]}
        ELSE IF L > 0
        THEN {[out |-> "yield", item |-> g.arr.elems[1],
               g |-> [g EXCEPT !.c = c1, !.j = 1, !.at = "for"]]}
        ELSE {[out |-> "hang", item |-> 0, g |-> [g EXCEPT !.c = c1, !.at = "start"]]}

\* The outcomes of next() on a RandomArrangement generator; c counts the
\* iterations of range(num_mount); random.choice of an empty list raises
\* IndexError.
RandomResume(g) ==
    IF g.at = "end" \/ ~(g.c < g.num_mount)
    THEN {[out |-> "stop", item |-> 0, g |-> [g EXCEPT !.at = "end"]]}
    ELSE IF ~g.arr.isList
    THEN {[out |-> "yield", item |-> g.arr.elems[1],
           g |-> [g EXCEPT !.c = g.c + 1, !.at = "else"]]}
    ELSE IF Len(g.arr.elems) = 0
    THEN {[out |-> "IndexError", item |-> 0, g |-> [g EXCEPT !.at = "end"]]}
    ELSE {[out |-> "yield", item |-> g.arr.elems[k],
           g |-> [g EXCEPT !.c = g.c + 1, !.at = "for"]] :
             k \in 1..Len(g.arr.elems)}

Resume(g) == IF g.arr.kind = "Periodic" THEN PeriodicResume(g) ELSE RandomResume(g)

\* random.choice draws from the module-level generator of random: the
\* process-wide state after the generators before have become after
Drew(before, after) ==
    \E i \in 1..Len(before) :
        /\ before[i].arr.kind = "Random" /\ before[i].arr.isList
        /\ after[i].c > before[i].c
AfterDraws(before, after) ==
    IF Drew(before, after) THEN [glob EXCEPT !.py_random = "advanced"] ELSE glob

\* A generator drained by its consumer, one next() per step.
SolverIdle ==
    /\ excit = [kind |-> "none"]
    /\ discr = [nt |-> 0]
    /\ fill = "zero"
    /\ force = <<>>
    /\ defl = <<>>
    /\ excitation_index = [isList |-> FALSE, elems |-> <<0>>]
    /\ excitation_now = [isList |-> FALSE, elems |-> <<0>>]
    /\ f = <<>>
    /\ t = 0
    /\ nsolves = 0
    /\ nwrites = <<>>
    /\ reads = {}
    /\ wrote = -1
    /\ PostIdle

InitArr ==
    /\ pc = "generating"
    /\ err = ""
    /\ l_track = 0
    /\ \E arr \in PadArrangements \cup DistanceArrangements, n \in 0..MaxMount :
          gen = Generate(arr, n)
    /\ yielded = <<>>
    /\ GlobInit
    /\ SolverIdle
    /\ TrackIdle

ArrYield ==
    /\ pc = "generating"
    /\ \E o \in Resume(gen) :
          /\ o.out = "yield"
          /\ gen' = o.g
          /\ yielded' = Append(yielded, o.item)
          /\ glob' = AfterDraws(<<gen>>, <<o.g>>)
    /\ UNCHANGED <<pc, err, l_track, solverVars, trackVars>>

ArrStop ==
    /\ pc = "generating"
    /\ \E o \in Resume(gen) :
          /\ o.out = "stop"
          /\ gen' = o.g
    /\ pc' = "exhausted"
    /\ UNCHANGED <<err, l_track, yielded, glob, solverVars, trackVars>>

\* next() never returns: the generator spins in "while c < num_mount"
ArrHang ==
    /\ pc = "generating"
    /\ \E o \in Resume(gen) :
          /\ o.out = "hang"
          /\ gen' = o.g
    /\ UNCHANGED <<pc, err, l_track, yielded, glob, solverVars, trackVars>>

ArrIndexError ==
    /\ pc = "generating"
    /\ \E o \in Resume(gen) :
          /\ o.out = "IndexError"
          /\ gen' = o.g
    /\ pc' = "failed"
    /\ err' = "IndexError"
    /\ UNCHANGED <<l_track, yielded, glob, solverVars, trackVars>>

NextArr == ArrYield \/ ArrStop \/ ArrHang \/ ArrIndexError

SpecArr == InitArr /\ [][NextArr]_vars

\* C10: generate(N) yields exactly N items; a PeriodicArrangement over a
\* list of L items yields item[k mod L] as its k-th item, a
\* RandomArrangement over a list yields members of the list, and a
\* non-list item is yielded as it is.
C10_GenerateYieldsExactlyN ==
    /\ \A k \in 1..Len(yielded) :
          IF ~gen.arr.isList THEN yielded[k] = gen.arr.elems[1]
          ELSE IF gen.arr.kind = "Periodic"
          THEN yielded[k] = gen.arr.elems[((k - 1) % Len(gen.arr.elems)) + 1]
          ELSE \E i \in 1..Len(gen.arr.elems) : yielded[k] = gen.arr.elems[i]
    /\ pc = "exhausted" => Len(yielded) = gen.num_mount

\* C29: PeriodicArrangement.generate(N) and RandomArrangement.generate(N)
\* terminate for every N >= 0 and every item value, an empty item list
\* included: every next() on the generator returns (an item,
\* StopIteration or an error) and fewer than N + max(L, 1) items are
\* yielded before it stops.
C29_GenerateTerminates ==
    pc = "generating"
        => /\ \A o \in Resume(gen) : o.out # "hang"
           /\ Len(yielded) < gen.num_mount
                               + (IF Len(gen.arr.elems) > 1 THEN Len(gen.arr.elems) ELSE 1)

----------------------------------------------------------------------------
(* The track builder (rolland/track.py)                                    *)
(*                                                                         *)
(* track holds the traits of a discrete track: cls, num_mount, distance,   *)
(* pad and sleeper (for the arranged classes distance, pad and sleeper are *)
(* Arrangements; for the simple periodic classes distance is a number of   *)
(* millimetres and pad, sleeper are component ids, 0 standing for None).   *)
(* mount_prop is the dict: its keys in insertion order and its values      *)
(* <<pad, sleeper, ballast>>.                                              *)

\* Slab.ms = 1e20 of a rigid slab lies beyond the checker's integers:
\* RigidMs stands for it.
RigidMs == 1000000
SlabClasses == {"ContSlabSingleRailTrack", "SimplePeriodicSlabSingleRailTrack",
                "ArrangedSlabSingleRailTrack"}
SimpleClasses == {"SimplePeriodicSlabSingleRailTrack",
                  "SimplePeriodicBallastedSingleRailTrack"}
ArrangedClasses == {"ArrangedSlabSingleRailTrack",
                    "ArrangedBallastedSingleRailTrack"}

Range(seq) == {seq[i] : i \in 1..Len(seq)}
RECURSIVE Max(_)
Max(S) == LET a == CHOOSE e \in S : TRUE
          IN  IF S = {a} THEN a
              ELSE LET m == Max(S \ {a}) IN IF a > m THEN a ELSE m

RECURSIVE NumDigits(_)
NumDigits(n) == IF n < 10 THEN 1 ELSE 1 + NumDigits(n \div 10)
RECURSIVE RoundToDigits(_, _)
RoundToDigits(n, p) ==
    IF NumDigits(n) <= p THEN n
    ELSE 10 * RoundToDigits(RoundHalfEven(n, 10), p)

\* float(d) of a Decimal d: the nearest double.  A double represents every
\* decimal of up to 15 significant digits distinctly and str() gives that
\* decimal back, so the double is named by the decimal rounded to 15 digits.
FloatOfDecimal(d) ==
    IF d < 0 THEN -RoundToDigits(-d, 15) ELSE RoundToDigits(d, 15)

EmptyDict == [keys |-> <<>>, val |-> <<>>]
\* d[k] = v
DictSet(d, k, v) ==
    [keys |-> IF k \in Range(d.keys) THEN d.keys ELSE Append(d.keys, k),
     val |-> (k :> v) @@ d.val]

\* x = float(Decimal(str(_i)) * Decimal(str(self.distance)))
SimplePositionFromOne(i, d) == FloatOfDecimal((i + 1) * d)
SimplePosition(i, d) == FloatOfDecimal(i * d)

\* for _i in range(num_mount): mount_prop[x] = tup, from _i = i on
RECURSIVE SimpleLoop(_, _, _, _, _)
SimpleLoop(mp, i, n, d, tup) ==
    IF i >= n THEN mp
    ELSE SimpleLoop(DictSet(mp, SimplePosition(i, d), tup), i + 1, n, d, tup)

\* zip(): next() on each generator in argument order, stopping at the first
\* that does not yield.  The outcomes, each with the generators as left.
RECURSIVE Pull(_, _, _)
Pull(gs, i, items) ==
    IF i > Len(gs) THEN {[out |-> "yield", items |-> items, gens |-> gs]}
    ELSE UNION {IF o.out = "yield"
                THEN Pull([gs EXCEPT ![i] = o.g], i + 1, Append(items, o.item))
                ELSE {[out |-> o.out, items |-> items,
                       gens |-> [gs EXCEPT ![i] = o.g]]} :
                o \in Resume(gs[i])}

InitTrack ==
    /\ pc = "declared"
    /\ err = ""
    /\ l_track = 0
    /\ \/ \E cls \in SimpleClasses, n \in 0..MaxMount, d \in SimpleDistances :
             track = [cls |-> cls, num_mount |-> n, distance |-> d, pad |-> 1,
                      sleeper |-> IF cls = "SimplePeriodicSlabSingleRailTrack"
                                  THEN 0 ELSE 1]
       \/ \E n \in 0..MaxMount, p \in PadArrangements, d \in DistanceArrangements :
             track = [cls |-> "ArrangedSlabSingleRailTrack", num_mount |-> n,
                      distance |-> d, pad |-> p, sleeper |-> 0]
       \/ \E n \in 0..MaxMount, p \in PadArrangements, d \in DistanceArrangements,
             sl \in SleeperArrangements :
             track = [cls |-> "ArrangedBallastedSingleRailTrack", num_mount |-> n,
                      distance |-> d, pad |-> p, sleeper |-> sl]
    /\ mount_prop = EmptyDict
    /\ x = 0
    /\ gens = <<>>
    /\ ncalc = 0
    /\ slab_set = FALSE
    /\ GlobInit
    /\ SolverIdle
    /\ ArrIdle

\* calc_mount_prop is called once by __init__ and once for every observed
\* trait the constructor was given (traitlets notifies the observers of
\* the keyword arguments): the calls all see the same trait values.
CanCalc == pc \in {"declared", "constructed"} /\ ncalc < MaxCalc

\* l_track = max(mount_prop.keys()), which raises ValueError on no keys
TakeMax(mp) ==
    IF mp.keys = <<>>
    THEN /\ pc' = "failed"
         /\ err' = "ValueError"
         /\ UNCHANGED l_track
    ELSE /\ pc' = "constructed"
         /\ l_track' = Max(Range(mp.keys))
         /\ UNCHANGED err

\* SimplePeriodicSlabSingleRailTrack.calc_mount_prop (which empties the
\* dict first) and SimplePeriodicBallastedSingleRailTrack.calc_mount_prop
\* (which does not)
CalcMountPropSimple ==
    /\ CanCalc
    /\ track.cls \in SimpleClasses
    /\ LET start == IF track.cls = "SimplePeriodicSlabSingleRailTrack"
                    THEN EmptyDict ELSE mount_prop
           tup == IF track.cls = "SimplePeriodicSlabSingleRailTrack"
                  THEN <<track.pad, 0, 0>>
                  ELSE <<track.pad, track.sleeper, 1>>
           mp == SimpleLoop(start, 0, track.num_mount, track.distance, tup)
       IN  /\ mount_prop' = mp
           /\ TakeMax(mp)
    /\ ncalc' = ncalc + 1
    /\ UNCHANGED <<track, x, gens, slab_set, glob, solverVars, arrVars>>

\* Arranged*SingleRailTrack.calc_mount_prop up to the loop: x = Decimal(0)
\* and the generators handed to zip()
CalcMountPropStart ==
    /\ CanCalc
    /\ track.cls \in ArrangedClasses
    /\ x' = 0
    /\ gens' = IF track.cls = "ArrangedSlabSingleRailTrack"
               THEN <<Generate(track.pad, track.num_mount),
                      Generate(track.distance, track.num_mount)>>
               ELSE <<Generate(track.sleeper, track.num_mount),
                      Generate(track.pad, track.num_mount),
                      Generate(track.distance, track.num_mount)>>
    /\ pc' = "zip"
    /\ ncalc' = ncalc + 1
    /\ UNCHANGED <<err, l_track, track, mount_prop, slab_set, glob, solverVars, arrVars>>

\* one iteration of ArrangedSlabSingleRailTrack's loop
ZipBody ==
    /\ pc = "zip"
    /\ track.cls = "ArrangedSlabSingleRailTrack"
    /\ \E o \in Pull(gens, 1, <<>>) :
          /\ o.out = "yield"
          /\ gens' = o.gens
          /\ glob' = AfterDraws(gens, o.gens)
          /\ mount_prop' = DictSet(mount_prop, FloatOfDecimal(x),
                                   <<o.items[1], 0, 0>>)
          /\ x' = x + o.items[2]
    /\ UNCHANGED <<pc, err, l_track, track, ncalc, slab_set, solverVars, arrVars>>

\* the first iteration of ArrangedBallastedSingleRailTrack's loop: zip()
\* of three generators gives 3-tuples, and "for s, p, b, d in" needs four
ZipUnpackError ==
    /\ pc = "zip"
    /\ track.cls = "ArrangedBallastedSingleRailTrack"
    /\ \E o \in Pull(gens, 1, <<>>) :
          /\ o.out = "yield"
          /\ gens' = o.gens
          /\ glob' = AfterDraws(gens, o.gens)
    /\ pc' = "failed"
    /\ err' = "ValueError"
    /\ UNCHANGED <<l_track, track, mount_prop, x, ncalc, slab_set, solverVars, arrVars>>

\* zip() is exhausted: the statement after the loop
ZipStop ==
    /\ pc = "zip"
    /\ \E o \in Pull(gens, 1, <<>>) :
          /\ o.out = "stop"
          /\ gens' = o.gens
          /\ glob' = AfterDraws(gens, o.gens)
    /\ TakeMax(mount_prop)
    /\ UNCHANGED <<track, mount_prop, x, ncalc, slab_set, solverVars, arrVars>>

\* a generator never returns from next()
ZipHang ==
    /\ pc = "zip"
    /\ \E o \in Pull(gens, 1, <<>>) :
          /\ o.out = "hang"
          /\ gens' = o.gens
          /\ glob' = AfterDraws(gens, o.gens)
    /\ pc' = "hang"
    /\ UNCHANGED <<err, l_track, track, mount_prop, x, ncalc, slab_set, solverVars, arrVars>>

ZipSpin ==
    /\ pc = "hang"
    /\ UNCHANGED vars

\* random.choice([]) raises IndexError
ZipIndexError ==
    /\ pc = "zip"
    /\ \E o \in Pull(gens, 1, <<>>) :
          /\ o.out = "IndexError"
          /\ gens' = o.gens
          /\ glob' = AfterDraws(gens, o.gens)
    /\ pc' = "failed"
    /\ err' = "IndexError"
    /\ UNCHANGED <<l_track, track, mount_prop, x, ncalc, slab_set, solverVars, arrVars>>

\* SlabSingleRailTrack.__init__ after super().__init__: self.slab.ms = 1e20,
\* where self.slab is the class attribute, one Slab for every slab track
SlabSingleRailTrackInit ==
    /\ pc \in {"declared", "constructed"}
    /\ track.cls \in SlabClasses
    /\ ~slab_set
    /\ slab_set' = TRUE
    /\ glob' = [glob EXCEPT !.slab_ms = RigidMs]
    /\ UNCHANGED <<pc, err, l_track, track, mount_prop, x, gens, ncalc,
                   solverVars, arrVars>>

NextTrack ==
    \/ CalcMountPropSimple
    \/ CalcMountPropStart
    \/ ZipBody
    \/ ZipUnpackError
    \/ ZipStop
    \/ ZipHang
    \/ ZipSpin
    \/ ZipIndexError
    \/ SlabSingleRailTrackInit

SpecTrack == InitTrack /\ [][NextTrack]_vars

IsSimple == track.cls \in SimpleClasses
NumKeys == Len(mount_prop.keys)

\* C8: a uniform periodic track constructed with distance d > 0 and
\* num_mount N >= 1 has exactly N keys, the keys are i*d for i = 0..N-1,
\* and l_track is the largest key (N-1)*d.
C8_UniformMountMap ==
    (IsSimple /\ pc = "constructed" /\ track.distance > 0 /\ track.num_mount >= 1)
        => /\ NumKeys = track.num_mount
           /\ \A i \in 0..(track.num_mount - 1) :
                 mount_prop.keys[i + 1] = i * track.distance
           /\ l_track = (track.num_mount - 1) * track.distance
           /\ \A k \in Range(mount_prop.keys) :
                 mount_prop.val[k][1] = track.pad

C8_Witness ==
    /\ track.cls = "SimplePeriodicBallastedSingleRailTrack"
    /\ pc = "constructed" /\ ncalc = 2
    /\ track.distance = 600 /\ track.num_mount = 4
    /\ mount_prop.keys = <<0, 600, 1200, 1800>>
    /\ l_track = 1800

\* the k-th item (k = 0, 1, ...) of a periodic arrangement's sequence
CyclicItem(arr, k) ==
    IF arr.isList THEN arr.elems[(k % Len(arr.elems)) + 1] ELSE arr.elems[1]
RECURSIVE CyclicSum(_, _)
CyclicSum(arr, k) == IF k = 0 THEN 0 ELSE CyclicSum(arr, k - 1) + CyclicItem(arr, k - 1)

\* C9: an arranged track built with num_mount = N has exactly N entries;
\* the k-th lies at the sum of the first k generated distances and carries
\* the k-th generated pad; l_track is the largest position (stated for the
\* first calc_mount_prop call of a slab track with positive distances, and
\* the positions and pads for periodic arrangements).
C9_ArrangedMountMap ==
    (/\ track.cls = "ArrangedSlabSingleRailTrack"
     /\ pc = "constructed" /\ ncalc = 1
     /\ \A i \in 1..Len(track.distance.elems) : track.distance.elems[i] > 0)
        => /\ NumKeys = track.num_mount
           /\ l_track = Max(Range(mount_prop.keys))
           /\ (track.pad.kind = "Periodic" /\ track.distance.kind = "Periodic")
                 => \A k \in 0..(NumKeys - 1) :
                       /\ mount_prop.keys[k + 1] = CyclicSum(track.distance, k)
                       /\ mount_prop.val[mount_prop.keys[k + 1]][1]
                             = CyclicItem(track.pad, k)

\* C25: constructing an ArrangedBallastedSingleRailTrack with pad, sleeper
\* and distance arrangements (each with at least one item), a ballast and
\* num_mount N >= 1 succeeds, and the k-th mount-map entry is the tuple
\* (k-th generated pad, k-th generated sleeper, the track's ballast).
C25_ArrangedBallastedBuilds ==
    (/\ track.cls = "ArrangedBallastedSingleRailTrack"
     /\ track.num_mount >= 1
     /\ Len(track.pad.elems) >= 1
     /\ Len(track.sleeper.elems) >= 1
     /\ Len(track.distance.elems) >= 1
     /\ pc \in {"constructed", "failed"})
        => /\ pc = "constructed"
           /\ (/\ track.pad.kind = "Periodic"
               /\ track.sleeper.kind = "Periodic")
                 => \A k \in 0..(NumKeys - 1) :
                       mount_prop.val[mount_prop.keys[k + 1]]
                          = <<CyclicItem(track.pad, k), CyclicItem(track.sleeper, k), 1>>

IsDiscrete == track.cls \in SimpleClasses \cup ArrangedClasses

\* C11: a constructed discrete track's mount map holds only non-negative
\* positions, strictly increasing in map order, whatever items the distance
\* arrangement was given (a sequence that would give non-monotone positions
\* is rejected, not stored).
C11_PositionsMonotone ==
    (IsDiscrete /\ pc = "constructed")
        => /\ \A i \in 1..NumKeys : mount_prop.keys[i] >= 0
           /\ \A i \in 1..(NumKeys - 1) : mount_prop.keys[i] < mount_prop.keys[i + 1]

(* Assignments to the traits of a constructed uniform track                *)

AssignPads == {1, 2}

\* the tuple calc_mount_prop stores for every mount of track tr
MountTuple(tr) ==
    IF tr.cls = "SimplePeriodicSlabSingleRailTrack"
    THEN <<tr.pad, 0, 0>>
    ELSE <<tr.pad, tr.sleeper, 1>>

\* mount_prop of a track constructed with the trait values of tr
FreshMountProp(tr) ==
    SimpleLoop(EmptyDict, 0, tr.num_mount, tr.distance, MountTuple(tr))

\* track.num_mount = n, track.distance = d, track.pad = p or
\* track.sleeper = sl with a new value: traitlets calls the observer
\* calc_mount_prop after storing the value
AssignTrait ==
    /\ CanCalc /\ pc = "constructed"
    /\ track.cls \in SimpleClasses
    /\ \/ \E n \in 0..MaxMount :
             n # track.num_mount /\ track' = [track EXCEPT !.num_mount = n]
       \/ \E d \in SimpleDistances :
             d # track.distance /\ track' = [track EXCEPT !.distance = d]
       \/ \E p \in AssignPads :
             p # track.pad /\ track' = [track EXCEPT !.pad = p]
       \/ \E sl \in AssignPads :
             /\ track.cls = "SimplePeriodicBallastedSingleRailTrack"
             /\ sl # track.sleeper
             /\ track' = [track EXCEPT !.sleeper = sl]
    /\ LET start == IF track.cls = "SimplePeriodicSlabSingleRailTrack"
                    THEN EmptyDict ELSE mount_prop
           mp == SimpleLoop(start, 0, track'.num_mount, track'.distance,
                            MountTuple(track'))
       IN  /\ mount_prop' = mp
           /\ TakeMax(mp)
    /\ ncalc' = ncalc + 1
    /\ UNCHANGED <<x, gens, slab_set, glob, solverVars, arrVars>>

InitAssign == InitTrack /\ track.cls \in SimpleClasses

NextAssign ==
    \/ CalcMountPropSimple
    \/ AssignTrait

SpecAssign == InitAssign /\ [][NextAssign]_vars

\* C26: after any sequence of assignments to num_mount, distance, pad or
\* sleeper on a discrete track the mount map equals the map of a track
\* freshly constructed with the current values, and l_track is its
\* largest position.
C26_MountMapFollowsTraits ==
    (track.cls \in SimpleClasses /\ pc = "constructed")
        => /\ mount_prop = FreshMountProp(track)
           /\ l_track = Max(Range(mount_prop.keys))

----------------------------------------------------------------------------
(* DiscretizationEBBVerticConst.__init__ (rolland/discretization.py)       *)
(*                                                                         *)
(* The constructor's steps act on discr.  Its floats are kept as exact     *)
(* fractions [n, d] in lowest terms, so that dx = 0.6 / k is exact for     *)
(* every k; lengths stay in millimetres.  The stability length             *)
(* ((E Iyr) / (6 mr))^(1/4) dt^(1/2) is the input base, so that            *)
(* dx_min = bx * base and r = E Iyr dt^2 / (2 mr dx^4) = 3 (base / dx)^4.  *)

RECURSIVE Gcd(_, _)
Gcd(a, b) == IF b = 0 THEN a ELSE Gcd(b, a % b)

Rat(n, d) == LET g == Gcd(Abs(n), d) IN [n |-> n \div g, d |-> d \div g]
RInt(i) == [n |-> i, d |-> 1]
Lcm(a, b) == (a \div Gcd(a, b)) * b
RatAdd(p, q) ==
    LET l == Lcm(p.d, q.d)
    IN  Rat(p.n * (l \div p.d) + q.n * (l \div q.d), l)
RatNeg(p) == [n |-> -p.n, d |-> p.d]
RatAbs(p) == [n |-> Abs(p.n), d |-> p.d]
RatMul(p, q) ==
    LET g1 == Gcd(Abs(p.n), q.d)
        g2 == Gcd(Abs(q.n), p.d)
    IN  Rat((p.n \div g1) * (q.n \div g2), (p.d \div g2) * (q.d \div g1))
\* p / q for q > 0
RatDiv(p, q) == RatMul(p, [n |-> q.d, d |-> q.n])
RatLess(p, q) ==
    LET l == Lcm(p.d, q.d)
    IN  p.n * (l \div p.d) < q.n * (l \div q.d)
RECURSIVE RatPow(_, _)
RatPow(p, e) == IF e = 0 THEN RInt(1) ELSE RatMul(p, RatPow(p, e - 1))
\* int(p) for p >= 0
RatFloor(p) == p.n \div p.d
\* int(p): truncation towards zero
RatTrunc(p) == IF p.n >= 0 THEN p.n \div p.d ELSE -((-p.n) \div p.d)

\* a + b in doubles: exact for the model's small fractions; a number below
\* half an ulp of 1e20 added to 1e20 leaves 1e20.
FloatAdd(a, b) ==
    IF ~RatLess(b, RInt(RigidMs)) /\ RatLess(RatAbs(a), RInt(8192))
    THEN b ELSE RatAdd(a, b)

\* the components the tracks are built from: pad 1, 2 (sp[0], dp[0]),
\* sleeper 1, 2 (ms), ballast 1 (sb[0], db[0]); the rail (mr, dr)
Pads == <<[sp |-> 3, dp |-> 1], [sp |-> 4, dp |-> 0]>>
Sleepers == <<[ms |-> 5], [ms |-> 7]>>
Ballasts == <<[sb |-> 2, db |-> 1]>>
Rail == [mr |-> 3, dr |-> 1]

ContClasses == {"ContSlabSingleRailTrack", "ContBallastedSingleRailTrack"}
ContLTrackSet == {0, 600, 1500, 1800}
SlabMsSet == {6}
BxSet == {1, 2}
BaseSet == {80, 100, 150, 250, 400, 700}
LBoundSet == {0, 300, 400}
DiscrDistances == {250, 500, 600}

nonDiscrVars == <<excit, force, defl, fill, excitation_index, excitation_now,
                  f, t, nsolves, nwrites, reads, wrote, post, x, gens,
                  ncalc, slab_set, glob, arrVars>>

\* the discretization's traits, nothing computed yet
NewDiscr(bx, base, l_bound, req_simt) ==
    [bx |-> bx, base |-> base, dt |-> RefDt, req_simt |-> req_simt,
     l_bound |-> l_bound, dx_min |-> 0, nt |-> 0, sim_t |-> 0, k |-> 0,
     dx |-> RInt(0), bx_upd |-> RInt(0), nx |-> 0, n_bound |-> 0,
     pml |-> <<>>, dr_adds |-> <<>>, vec_dr |-> <<>>, vec_sp |-> <<>>, vec_dp |-> <<>>,
     vec_ms |-> <<>>, vec_sb |-> <<>>, vec_db |-> <<>>,
     A |-> <<>>, B |-> <<>>, C |-> <<>>]

\* A constructed track and the traits of a discretization of it.  The slab
\* of a slab track is the class attribute Slab(), whose ms __init__ sets to
\* 1e20; a simple periodic track holds the mount map its constructor built.
InitDiscr ==
    /\ pc = "d_new"
    /\ err = ""
    /\ \/ \E cls \in ContClasses, l \in ContLTrackSet, p \in 1..Len(Pads),
             ms \in SlabMsSet :
             /\ track = [cls |-> cls, pad |-> p,
                         slab |-> IF cls \in SlabClasses THEN RigidMs ELSE ms,
                         ballast |-> IF cls \in SlabClasses THEN 0 ELSE 1]
             /\ l_track = l
             /\ mount_prop = EmptyDict
       \/ \E cls \in SimpleClasses, n \in 1..MaxMount, d \in DiscrDistances,
             p \in 1..Len(Pads) :
             LET sl == IF cls \in SlabClasses THEN 0 ELSE 1
                 mp == SimpleLoop(EmptyDict, 0, n, d, <<p, sl, sl>>)
             IN  /\ track = [cls |-> cls, pad |-> p,
                             slab |-> IF cls \in SlabClasses THEN RigidMs ELSE 0,
                             ballast |-> sl, num_mount |-> n, distance |-> d,
                             sleeper |-> sl]
                 /\ l_track = Max(Range(mp.keys))
                 /\ mount_prop = mp
    /\ \E bx \in BxSet, base \in BaseSet, lb \in LBoundSet :
          discr = NewDiscr(bx, base, lb, MaxReqSimt)
    /\ excit = [kind |-> "none"]
    /\ fill = "zero"
    /\ force = <<>>
    /\ defl = <<>>
    /\ excitation_index = [isList |-> FALSE, elems |-> <<0>>]
    /\ excitation_now = [isList |-> FALSE, elems |-> <<0>>]
    /\ f = <<>>
    /\ t = 0
    /\ nsolves = 0
    /\ nwrites = <<>>
    /\ reads = {}
    /\ wrote = -1
    /\ x = 0
    /\ gens = <<>>
    /\ ncalc = 0
    /\ slab_set = TRUE
    /\ PostIdle
    /\ glob = [np_random |-> "initial", py_random |-> "initial",
               slab_ms |-> IF track.cls \in SlabClasses THEN RigidMs ELSE 0]
    /\ ArrIdle

\* calc_grid.  0.6 // dx_min is 0 for dx_min > 0.6 and 0.6 / 0.0 raises
\* ZeroDivisionError.
calc_grid ==
    /\ pc = "d_new"
    /\ LET dx_min == discr.bx * discr.base
           k == SleeperSteps(dx_min)
           nt == CalcNt(discr.req_simt, discr.dt)
       IN  IF k = 0
           THEN /\ pc' = "failed"
                /\ err' = "ZeroDivisionError"
                /\ discr' = [discr EXCEPT !.dx_min = dx_min, !.nt = nt,
                                          !.sim_t = nt * discr.dt]
           ELSE /\ pc' = "gridded"
                /\ UNCHANGED err
                /\ discr' = [discr EXCEPT
                      !.dx_min = dx_min, !.nt = nt, !.sim_t = nt * discr.dt,
                      !.k = k, !.dx = Rat(600, k),
                      !.bx_upd = RatDiv(Rat(600, k), RInt(discr.base)),
                      !.nx = RatFloor(RatDiv(RInt(l_track), Rat(600, k))) + 1]
    /\ UNCHANGED <<l_track, track, mount_prop, nonDiscrVars>>

\* numpy.linspace(0, stop, num)[i], i = 0..num-1
Linspace(stop, num, i) ==
    IF num = 1 THEN RInt(0) ELSE Rat(stop * i, num - 1)

\* the damping exponent of the boundary layer
PmlExponent == 7
\* PMLRailDampVertic.pml(drbc, xbc): p[i] = drbc * xbc[i]^alpha / l_bound^alpha
Pml(drbc, l_bound, num) ==
    [i \in 1..num |->
        RatMul(drbc, RatPow(RatDiv(Linspace(l_bound, num, i - 1), RInt(l_bound)),
                            PmlExponent))]

\* (base / dx)^4 = E Iyr dt^2 / (6 mr dx^4)
StabRatio4(d) == RatPow(RatDiv(RInt(d.base), d.dx), 4)

\* drbc = r / 2 * mr / dt with r = E Iyr / mr * dt^2 / dx^4
Drbc(d) ==
    LET r == RatMul(RInt(6), StabRatio4(d))
    IN  RatDiv(RatMul(RatDiv(r, RInt(2)), RInt(Rail.mr)), RInt(d.dt))

\* calc_bound
calc_bound ==
    /\ pc = "gridded"
    /\ LET drbc == Drbc(discr)
           n_bound == RatFloor(RatDiv(RInt(discr.l_bound), discr.dx))
       IN  discr' = [discr EXCEPT !.n_bound = n_bound,
                                  !.pml = Pml(drbc, discr.l_bound, n_bound)]
    /\ pc' = "bounded"
    /\ UNCHANGED <<err, l_track, track, mount_prop, nonDiscrVars>>

\* initialize_vectors
initialize_vectors ==
    /\ pc = "bounded"
    /\ discr' = [discr EXCEPT
          !.vec_dr = [i \in 1..discr.nx |-> RInt(Rail.dr)],
          !.dr_adds = [i \in 1..discr.nx |-> {}],
          !.vec_sp = [i \in 1..discr.nx |-> RInt(0)],
          !.vec_dp = [i \in 1..discr.nx |-> RInt(0)],
          !.vec_ms = [i \in 1..discr.nx |-> RInt(1)],
          !.vec_sb = [i \in 1..discr.nx |-> RInt(0)],
          !.vec_db = [i \in 1..discr.nx |-> RInt(0)]]
    /\ pc' = "vectors"
    /\ UNCHANGED <<err, l_track, track, mount_prop, nonDiscrVars>>

\* numpy's "a[lo:hi] += b" for 1-d arrays: b must have the slice's length
\* or length 1
CanAddInPlace(slice_len, b_len) == b_len = slice_len \/ b_len = 1

\* vec_dr[:pml.size] += pml[::-1]
AddLeft(vec, pml) ==
    [i \in 1..Len(vec) |->
        IF i <= Len(pml)
        THEN RatAdd(vec[i], IF Len(pml) = 1 THEN pml[1] ELSE pml[Len(pml) + 1 - i])
        ELSE vec[i]]
\* vec_dr[-pml.size:] += pml, where -0 is 0: the slice is the whole vector
AddRight(vec, pml) ==
    LET lo == IF Len(pml) = 0 THEN 0 ELSE Len(vec) - Len(pml)
    IN  [i \in 1..Len(vec) |->
            IF i > lo
            THEN RatAdd(vec[i], IF Len(pml) = 1 THEN pml[1] ELSE pml[i - lo])
            ELSE vec[i]]
LeftSliceLen(n, m) == IF m < n THEN m ELSE n
RightSliceLen(n, m) == IF m = 0 \/ m > n THEN n ELSE m

\* add_boundary_conditions
add_boundary_conditions ==
    /\ pc = "vectors"
    /\ LET n == discr.nx
           m == Len(discr.pml)
       IN  IF ~CanAddInPlace(LeftSliceLen(n, m), m)
           THEN /\ pc' = "failed"
                /\ err' = "ValueError"
                /\ UNCHANGED discr
           ELSE IF ~CanAddInPlace(RightSliceLen(n, m), m)
           THEN /\ pc' = "failed"
                /\ err' = "ValueError"
                /\ discr' = [discr EXCEPT
                      !.vec_dr = AddLeft(discr.vec_dr, discr.pml),
                      !.dr_adds = [i \in 1..n |->
                                      IF i <= m THEN {"left"} ELSE {}]]
           ELSE /\ pc' = "pml_added"
                /\ UNCHANGED err
                /\ discr' = [discr EXCEPT
                      !.vec_dr = AddRight(AddLeft(discr.vec_dr, discr.pml),
                                          discr.pml),
                      !.dr_adds = [i \in 1..n |->
                                      (IF i <= m THEN {"left"} ELSE {})
                                      \cup (IF i > n - m THEN {"right"} ELSE {})]]
    /\ UNCHANGED <<l_track, track, mount_prop, nonDiscrVars>>

\* vec += c at every node
AddAll(vec, c) == [i \in 1..Len(vec) |-> FloatAdd(vec[i], c)]

\* int(i / dx) of a mounting position i
MountIndex(pos, dx) ==
    IF pos >= 0 THEN RatFloor(RatDiv(RInt(pos), dx))
    ELSE -RatFloor(RatDiv(RInt(-pos), dx))

\* the loop of build_discrete_slab_track / build_discrete_ballasted_track
\* over the keys from the j-th on: vec[x_ind] = value[key] / dx
RECURSIVE AssignAtMounts(_, _, _, _, _)
AssignAtMounts(vec, keys, j, dx, value) ==
    IF j > Len(keys) THEN vec
    ELSE LET x_ind == IndexRow(MountIndex(keys[j], dx), Len(vec))
         IN  AssignAtMounts([vec EXCEPT ![x_ind + 1] = RatDiv(RInt(value[keys[j]]), dx)],
                            keys, j + 1, dx, value)

MountIndicesInBounds(keys, dx, n) ==
    \A j \in 1..Len(keys) : IndexInBounds(MountIndex(keys[j], dx), n)

\* build_superstructure_vectors
build_superstructure_vectors ==
    /\ pc = "pml_added"
    /\ LET pad == Pads[track.pad]
           keys == mount_prop.keys
           PadSp == [key \in Range(keys) |-> Pads[mount_prop.val[key][1]].sp]
           PadDp == [key \in Range(keys) |-> Pads[mount_prop.val[key][1]].dp]
           SlabMs == [key \in Range(keys) |-> track.slab]
           SleeperMs == [key \in Range(keys) |-> Sleepers[mount_prop.val[key][2]].ms]
       IN  IF track.cls = "ContSlabSingleRailTrack"
           THEN /\ discr' = [discr EXCEPT
                      !.vec_sp = AddAll(@, RInt(pad.sp)),
                      !.vec_dp = AddAll(@, RInt(pad.dp)),
                      !.vec_ms = AddAll(@, RInt(track.slab))]
                /\ pc' = "built"
                /\ UNCHANGED err
           ELSE IF track.cls \in {"SimplePeriodicSlabSingleRailTrack",
                                  "ArrangedSlabSingleRailTrack"}
           THEN IF MountIndicesInBounds(keys, discr.dx, discr.nx)
                THEN /\ discr' = [discr EXCEPT
                           !.vec_sp = AssignAtMounts(@, keys, 1, discr.dx, PadSp),
                           !.vec_dp = AssignAtMounts(@, keys, 1, discr.dx, PadDp),
                           !.vec_ms = AssignAtMounts(@, keys, 1, discr.dx, SlabMs)]
                     /\ pc' = "built"
                     /\ UNCHANGED err
                ELSE /\ pc' = "failed"
                     /\ err' = "IndexError"
                     /\ UNCHANGED discr
           ELSE IF track.cls = "ContBallastedSingleRailTrack"
           THEN /\ discr' = [discr EXCEPT
                      !.vec_sp = AddAll(@, RInt(pad.sp)),
                      !.vec_dp = AddAll(@, RInt(pad.dp)),
                      !.vec_ms = AddAll(@, RInt(track.slab)),
                      !.vec_sb = AddAll(@, RInt(Ballasts[track.ballast].sb)),
                      !.vec_db = AddAll(@, RInt(Ballasts[track.ballast].db))]
                /\ pc' = "built"
                /\ UNCHANGED err
           ELSE IF track.cls \in {"SimplePeriodicBallastedSingleRailTrack",
                                  "ArrangedBallastedSingleRailTrack"}
           THEN IF MountIndicesInBounds(keys, discr.dx, discr.nx)
                THEN /\ discr' = [discr EXCEPT
                           !.vec_sp = AssignAtMounts(@, keys, 1, discr.dx, PadSp),
                           !.vec_dp = AssignAtMounts(@, keys, 1, discr.dx, PadDp),
                           !.vec_ms = AssignAtMounts(@, keys, 1, discr.dx, SleeperMs),
                           !.vec_sb = AddAll(@, RatDiv(RInt(Ballasts[track.ballast].sb),
                                                       discr.dx)),
                           !.vec_db = AddAll(@, RatDiv(RInt(Ballasts[track.ballast].db),
                                                       discr.dx))]
                     /\ pc' = "built"
                     /\ UNCHANGED err
                ELSE /\ pc' = "failed"
                     /\ err' = "IndexError"
                     /\ UNCHANGED discr
           ELSE /\ pc' = "failed"
                /\ err' = "ValueError"
                /\ UNCHANGED discr
    /\ UNCHANGED <<l_track, track, mount_prop, nonDiscrVars>>

\* The matrices are functions of the index pairs <<row, col>> (0-based)
\* of their stored entries: the five diagonals of the rail block and the
\* diagonals of the three other blocks.
MatrixIndices(n) ==
    {ij \in (0..(n - 1)) \X (0..(n - 1)) : Abs(ij[1] - ij[2]) <= 2}
    \cup {<<i, n + i>> : i \in 0..(n - 1)}
    \cup {<<n + i, i>> : i \in 0..(n - 1)}
    \cup {<<n + i, n + i>> : i \in 0..(n - 1)}

StencilDNoCentre(i, j) ==
    IF i = j THEN 0 ELSE IF Abs(i - j) = 1 THEN -4 ELSE 1
\* D = diags([1, -4, 6, -4, 1], [-2, -1, 0, 1, 2])
StencilD(i, j) ==
    IF i = j THEN 6 ELSE IF Abs(i - j) = 1 THEN -4 ELSE 1

\* r = E Iyr dt^2 / (2 mr dx^4)
StiffnessRatio(d) == RatMul(RInt(3), StabRatio4(d))

Block(ij, n) ==
    IF ij[1] < n THEN (IF ij[2] < n THEN "11" ELSE "12")
    ELSE (IF ij[2] < n THEN "21" ELSE "22")

\* the entries of A
MatrixA(d) ==
    LET n == d.nx
        r == StiffnessRatio(d)
        dt == RInt(d.dt)
        dt2 == RInt(d.dt * d.dt)
        mr == RInt(Rail.mr)
        two == RInt(2)
        Entry(ij) ==
            LET i == (ij[1] % n) + 1
                a11_1 == RatAdd(RatMul(RatDiv(dt, mr), RatAdd(d.vec_dr[i], d.vec_dp[i])),
                                RatMul(RatDiv(dt2, RatMul(two, mr)), d.vec_sp[i]))
                a12 == RatAdd(RatMul(RatNeg(RatDiv(dt, mr)), d.vec_dp[i]),
                              RatMul(RatNeg(RatDiv(dt2, RatMul(two, mr))), d.vec_sp[i]))
                a21 == RatAdd(RatDiv(RatMul(RatNeg(dt), d.vec_dp[i]), d.vec_ms[i]),
                              RatMul(RatNeg(RatDiv(dt2, RatMul(two, d.vec_ms[i]))),
                                     d.vec_sp[i]))
                a22_1 == RatAdd(RatMul(dt, RatDiv(RatAdd(d.vec_dp[i], d.vec_db[i]),
                                                  d.vec_ms[i])),
                                RatMul(RatDiv(dt2, RatMul(two, d.vec_ms[i])),
                                       RatAdd(d.vec_sp[i], d.vec_sb[i])))
            IN  CASE Block(ij, n) = "11" ->
                       RatAdd(RatMul(r, RInt(StencilD(ij[1], ij[2]))),
                              IF ij[1] = ij[2] THEN RatAdd(RInt(1), a11_1) ELSE RInt(0))
                  [] Block(ij, n) = "12" -> a12
                  [] Block(ij, n) = "21" -> a21
                  [] Block(ij, n) = "22" -> RatAdd(RInt(1), a22_1)
    IN  [ij \in MatrixIndices(n) |-> Entry(ij)]

\* the entries of B
MatrixB(d) ==
    LET n == d.nx
        dt == RInt(d.dt)
        mr == RInt(Rail.mr)
        Entry(ij) ==
            LET i == (ij[1] % n) + 1
            IN  CASE Block(ij, n) = "11" ->
                       IF ij[1] = ij[2]
                       THEN RatAdd(RInt(2), RatMul(RatDiv(dt, mr),
                                                   RatAdd(d.vec_dr[i], d.vec_dp[i])))
                       ELSE RInt(0)
                  [] Block(ij, n) = "12" -> RatMul(RatNeg(RatDiv(dt, mr)), d.vec_dp[i])
                  [] Block(ij, n) = "21" ->
                       RatDiv(RatMul(RatNeg(dt), d.vec_dp[i]), d.vec_ms[i])
                  [] Block(ij, n) = "22" ->
                       RatAdd(RInt(2), RatDiv(RatMul(dt, RatAdd(d.vec_db[i], d.vec_dp[i])),
                                              d.vec_ms[i]))
    IN  [ij \in MatrixIndices(n) |-> Entry(ij)]

\* the entries of C
MatrixC(d) ==
    LET n == d.nx
        r == StiffnessRatio(d)
        dt2 == RInt(d.dt * d.dt)
        mr == RInt(Rail.mr)
        two == RInt(2)
        Entry(ij) ==
            LET i == (ij[1] % n) + 1
                c11_1 == RatMul(RatDiv(dt2, RatMul(two, mr)), d.vec_sp[i])
                c21 == RatMul(RatDiv(dt2, RatMul(two, d.vec_ms[i])), d.vec_sp[i])
                c22_1 == RatDiv(RatMul(dt2, RatAdd(d.vec_sp[i], d.vec_sb[i])),
                                RatMul(two, d.vec_ms[i]))
            IN  CASE Block(ij, n) = "11" ->
                       RatNeg(RatAdd(RatMul(r, RInt(StencilD(ij[1], ij[2]))),
                                     IF ij[1] = ij[2] THEN RatAdd(RInt(1), c11_1)
                                     ELSE RInt(0)))
                  [] Block(ij, n) = "12" -> c11_1
                  [] Block(ij, n) = "21" -> c21
                  [] Block(ij, n) = "22" -> RatNeg(RatAdd(RInt(1), c22_1))
    IN  [ij \in MatrixIndices(n) |-> Entry(ij)]

\* build_matrix.  ones(nx - 2) raises ValueError for nx = 1 (negative
\* dimensions).
build_matrix ==
    /\ pc = "built"
    /\ IF discr.nx - 2 < 0
       THEN /\ pc' = "failed"
            /\ err' = "ValueError"
            /\ UNCHANGED discr
       ELSE /\ pc' = "assembled"
            /\ UNCHANGED err
            /\ discr' = [discr EXCEPT !.A = MatrixA(discr), !.B = MatrixB(discr),
                                      !.C = MatrixC(discr)]
    /\ UNCHANGED <<l_track, track, mount_prop, nonDiscrVars>>

NextDiscr ==
    \/ calc_grid
    \/ calc_bound
    \/ initialize_vectors
    \/ add_boundary_conditions
    \/ build_superstructure_vectors
    \/ build_matrix

SpecDiscr == InitDiscr /\ [][NextDiscr]_vars

----------------------------------------------------------------------------
(* Properties of the discretization *)

GridDone == pc \notin {"d_new"}

\* C12: when the stability floor dx_min lies in (0, 0.6], the spatial step
\* is dx = 0.6 / k for the integer k = floor(0.6 / dx_min) >= 1, so that
\* dx >= dx_min and 0.6 = k dx, and k is the largest such integer:
\* 0.6 / (k + 1) < dx_min.
C12_FinestAdmissibleStep ==
    (GridDone /\ 0 < discr.dx_min /\ discr.dx_min <= 600)
        => /\ err # "ZeroDivisionError"
           /\ discr.k >= 1
           /\ discr.k = FloorDiv(600, discr.dx_min)
           /\ RatMul(RInt(discr.k), discr.dx) = RInt(600)
           /\ ~RatLess(discr.dx, RInt(discr.dx_min))
           /\ RatLess(Rat(600, discr.k + 1), RInt(discr.dx_min))

C12_Witness ==
    /\ pc = "gridded"
    /\ discr.dx_min = 80 /\ discr.k = 7 /\ discr.dx = [n |-> 600, d |-> 7]

\* C13: every discretization that reaches matrix assembly has
\* nx = floor(l_track / dx) + 1 >= 5; one with nx < 5 is rejected before
\* A, B, C are assembled.
C13_StencilWidthChecked ==
    pc = "assembled"
        => /\ discr.nx = FloorDiv(l_track * discr.k, 600) + 1
           /\ discr.nx >= 5

\* the nodes both ramps were added to
OverlapNodes == {i \in DOMAIN discr.dr_adds : discr.dr_adds[i] = {"left", "right"}}

\* C14: a discretization whose track is shorter than twice the boundary
\* length (2 n_b > nx) is rejected before matrix assembly, so that in an
\* assembled discretization no node carries both the left and the right
\* ramp.
C14_RampsNeverOverlap ==
    pc = "assembled"
        => /\ 2 * discr.n_bound <= discr.nx
           /\ OverlapNodes = {}

\* the sum of the absolute entries of row i of the matrix M in the columns
\* cols
RECURSIVE RowAbsSum(_, _, _)
RowAbsSum(M, i, cols) ==
    IF cols = {} THEN RInt(0)
    ELSE LET j == CHOOSE c \in cols : TRUE
         IN  RatAdd(RatAbs(M[<<i, j>>]), RowAbsSum(M, i, cols \ {j}))

\* the columns of the stored off-diagonal entries of row i
OffDiagonalColumns(M, n, i) ==
    {j \in {i - 2, i - 1, i + 1, i + 2, i - n, i + n} : <<i, j>> \in DOMAIN M}

StrictlyDiagonallyDominant(M, n) ==
    \A i \in 0..(2 * n - 1) :
        RatLess(RowAbsSum(M, i, OffDiagonalColumns(M, n, i)), RatAbs(M[<<i, i>>]))

NonNegativeVectors(d) ==
    \A i \in 1..d.nx :
        \A v \in {d.vec_dr[i], d.vec_sp[i], d.vec_dp[i], d.vec_sb[i], d.vec_db[i]} :
            ~RatLess(v, RInt(0))

PositiveMasses(d) == \A i \in 1..d.nx : RatLess(RInt(0), d.vec_ms[i])

VectorsBuilt == pc \in {"built", "assembled"}

\* C20: for a continuous track, after the property vectors are built
\* every node carries the track's pad stiffness, pad damping, slab mass,
\* ballast stiffness and ballast damping (no ballast and the rigid slab
\* mass for the slab track).
C20_ContinuousVectorsUniform ==
    (VectorsBuilt /\ track.cls \in ContClasses)
        => LET ballasted == track.cls = "ContBallastedSingleRailTrack"
               sb == IF ballasted THEN Ballasts[track.ballast].sb ELSE 0
               db == IF ballasted THEN Ballasts[track.ballast].db ELSE 0
               ms == IF ballasted THEN track.slab ELSE RigidMs
           IN  \A i \in 1..discr.nx :
                  /\ discr.vec_sp[i] = RInt(Pads[track.pad].sp)
                  /\ discr.vec_dp[i] = RInt(Pads[track.pad].dp)
                  /\ discr.vec_ms[i] = RInt(ms)
                  /\ discr.vec_sb[i] = RInt(sb)
                  /\ discr.vec_db[i] = RInt(db)

\* d_r after the ramp p was added on both sides of the vector of d_rail
RampedDamping(n, p) ==
    [i \in 1..n |->
        IF i <= Len(p) THEN RatAdd(RInt(Rail.dr), p[Len(p) + 1 - i])
        ELSE IF i > n - Len(p) THEN RatAdd(RInt(Rail.dr), p[i - (n - Len(p))])
        ELSE RInt(Rail.dr)]

\* C22: for every n_b with 0 <= 2 n_b <= nx, n_b = 0 included, applying the
\* boundary ramp gives d_r[i] = d_rail + p[n_b-1-i] on the left,
\* d_r[nx-n_b+j] = d_rail + p[j] on the right and d_rail in between.
C22_RampAppliedBothSides ==
    [][(pc = "vectors" /\ 2 * discr.n_bound <= discr.nx)
          => /\ pc' = "pml_added"
             /\ discr'.vec_dr = RampedDamping(discr.nx, discr.pml)]_vars

\* self.calc_bound() has run
BoundDone == pc \in {"bounded", "vectors", "pml_added", "built", "assembled"}
RampAdded == pc \in {"pml_added", "built", "assembled"}

\* C23: for every n_b >= 1 the ramp is non-decreasing with p[0] = 0 and
\* p[n_b-1] = d_max, and once it is added the rail damping rises
\* monotonically from the interior to d_rail + d_max at the end nodes 0 and
\* nx - 1.
C23_RampRisesToMax ==
    (BoundDone /\ discr.n_bound >= 1)
        => LET p == discr.pml
               n == discr.nx
               n_b == discr.n_bound
               top == RatAdd(RInt(Rail.dr), Drbc(discr))
           IN  /\ Len(p) = n_b
               /\ p[1] = RInt(0)
               /\ p[n_b] = Drbc(discr)
               /\ \A i \in 1..(n_b - 1) : ~RatLess(p[i + 1], p[i])
               /\ RampAdded
                    => /\ discr.vec_dr[1] = top
                       /\ discr.vec_dr[n] = top
                       /\ \A i \in 1..(n_b - 1) :
                              /\ ~RatLess(discr.vec_dr[i], discr.vec_dr[i + 1])
                              /\ ~RatLess(discr.vec_dr[n + 1 - i], discr.vec_dr[n - i])

\* the mounting positions that fall on node i (0-based)
MountsAtNode(i) ==
    {j \in 1..Len(mount_prop.keys) : MountIndex(mount_prop.keys[j], discr.dx) = i}

\* C21: for a discrete track the vectors s_p, d_p, m_s, s_b, d_b differ
\* from their initial values 0, 0, 1, 0, 0 only at mount nodes, where they
\* are the mount's pad stiffness, pad damping, sleeper or slab mass,
\* ballast stiffness and ballast damping, each divided by dx.
C21_DiscreteVectorsAtMounts ==
    (VectorsBuilt /\ track.cls \in SimpleClasses)
        => \A i \in 0..(discr.nx - 1) :
              LET at == MountsAtNode(i)
                  ballasted == track.cls \notin SlabClasses
                  dx == discr.dx
              IN  IF at = {}
                  THEN /\ discr.vec_sp[i + 1] = RInt(0)
                       /\ discr.vec_dp[i + 1] = RInt(0)
                       /\ discr.vec_ms[i + 1] = RInt(1)
                       /\ discr.vec_sb[i + 1] = RInt(0)
                       /\ discr.vec_db[i + 1] = RInt(0)
                  ELSE \E j \in at :
                       LET m == mount_prop.val[mount_prop.keys[j]]
                           ms == IF ballasted THEN Sleepers[m[2]].ms ELSE track.slab
                           sb == IF ballasted THEN Ballasts[track.ballast].sb ELSE 0
                           db == IF ballasted THEN Ballasts[track.ballast].db ELSE 0
                       IN  /\ discr.vec_sp[i + 1] = RatDiv(RInt(Pads[m[1]].sp), dx)
                           /\ discr.vec_dp[i + 1] = RatDiv(RInt(Pads[m[1]].dp), dx)
                           /\ discr.vec_ms[i + 1] = RatDiv(RInt(ms), dx)
                           /\ discr.vec_sb[i + 1] = RatDiv(RInt(sb), dx)
                           /\ discr.vec_db[i + 1] = RatDiv(RInt(db), dx)

\* sum of vec[i] * dx over the first n nodes
RECURSIVE NodeSum(_, _, _)
NodeSum(vec, dx, n) ==
    IF n = 0 THEN RInt(0) ELSE RatAdd(NodeSum(vec, dx, n - 1), RatMul(vec[n], dx))

\* sum of the pad property field ("sp" or "dp") over the first n mounts
RECURSIVE PadSum(_, _)
PadSum(field, n) ==
    IF n = 0 THEN 0
    ELSE PadSum(field, n - 1) + Pads[mount_prop.val[mount_prop.keys[n]][1]][field]

\* C27: discretization loses no mount: distinct mount positions map to
\* distinct nodes floor(x / dx), so the sum over all nodes of s_p[i] * dx
\* equals the sum of the pad stiffnesses of all mounts, and likewise for
\* the pad damping.
C27_NoMountLost ==
    (VectorsBuilt /\ track.cls \in SimpleClasses)
        => /\ \A i \in 0..(discr.nx - 1) : Cardinality(MountsAtNode(i)) <= 1
           /\ NodeSum(discr.vec_sp, discr.dx, discr.nx) = RInt(PadSum("sp", NumKeys))
           /\ NodeSum(discr.vec_dp, discr.dx, discr.nx) = RInt(PadSum("dp", NumKeys))

----------------------------------------------------------------------------
(* The sleeper rows of a run on a discrete track                           *)
(*                                                                         *)
(* DeflectionEBBVertic on an assembled discretization.  Row nx + i of      *)
(* A u = B u1 + C u0 + dt^2 / (mr dx) f is, where its entries of the       *)
(* blocks 21 are zero, the scalar recurrence                               *)
(* A22[i] u[nx+i] = B22[i] u1[nx+i] + C22[i] u0[nx+i] + dt^2/(mr dx) f[nx+i] *)
(* with A22[i] >= 1.  defl holds, for every sleeper row, whether its entry *)
(* in the two latest columns u1, u0 is "zero", "nonzero" or "any" number.  *)

SleeperXExcit == {300, -400}
SleeperRows == discr.nx..(2 * discr.nx - 1)

\* the discretizations the runs are made on
InitSleeper ==
    /\ InitDiscr
    /\ track.cls \in SimpleClasses
    /\ track.pad = 1
    /\ discr.bx = 1
    /\ discr.l_bound = 300

\* row r of A, B and C has no entry in the rail columns
Decoupled(r) ==
    LET e == <<r, r - discr.nx>>
    IN  discr.A[e] = RInt(0) /\ discr.B[e] = RInt(0) /\ discr.C[e] = RInt(0)

\* entry r of factoriz.solve(b) for the load vector fvec
SolveSleeperRow(r, fvec) ==
    IF ~Decoupled(r) \/ discr.A[<<r, r>>] = RInt(0) THEN "any"
    ELSE IF defl.u1[r] = "zero" /\ defl.u0[r] = "zero"
    THEN (IF fvec[r] = 0 THEN "zero" ELSE "nonzero")
    ELSE "any"

\* DeflectionEBBVertic.__init__ up to the loop of calc_deflection:
\* calc_force, initialize_start_values, the excitation index
DeflectionStart ==
    /\ pc = "assembled"
    /\ \E xe \in SleeperXExcit :
          /\ excit' = [kind |-> "ConstantForce",
                       x_excit |-> [isList |-> FALSE, elems |-> <<xe>>],
                       amp |-> 1, velocity |-> 60, ramp_fraction |-> 5]
          /\ force' = ForceSeries(excit', discr)
          /\ excitation_index' =
                [isList |-> FALSE, elems |-> <<RatTrunc(RatDiv(RInt(xe), discr.dx))>>]
    /\ glob' = [glob EXCEPT !.np_random = "seed(42)"]
    /\ defl' = [u1 |-> [r \in SleeperRows |-> "zero"],
                u0 |-> [r \in SleeperRows |-> "zero"]]
    /\ t' = 1
    /\ pc' = "running"
    /\ UNCHANGED <<err, l_track, track, mount_prop, discr, fill, excitation_now, f,
                   nsolves, nwrites, reads, wrote, post, x, gens, ncalc, slab_set,
                   arrVars>>

\* one iteration of "for t in range(1, nt)" on the sleeper rows
DeflectionStep ==
    /\ pc = "running" /\ t < discr.nt
    /\ LET idx == ExcitationNow(excitation_index.elems[1], t)
           now == [isList |-> FALSE, elems |-> <<idx>>]
           fvec == CalcRightsideF(now, t)
       IN  /\ excitation_now' = now
           /\ IF IndexInBounds(idx, 2 * discr.nx)
              THEN /\ f' = fvec
                   /\ defl' = [u1 |-> [r \in SleeperRows |-> SolveSleeperRow(r, fvec)],
                               u0 |-> defl.u1]
                   /\ t' = t + 1
                   /\ UNCHANGED <<pc, err>>
              ELSE /\ pc' = "failed"
                   /\ err' = "IndexError"
                   /\ UNCHANGED <<f, defl, t>>
    /\ UNCHANGED <<l_track, track, mount_prop, discr, excit, force, fill,
                   excitation_index, nsolves, nwrites, reads, wrote, post, x, gens,
                   ncalc, slab_set, glob, arrVars>>

NextSleeper ==
    \/ NextDiscr
    \/ DeflectionStart
    \/ DeflectionStep

SpecSleeper == InitSleeper /\ [][NextSleeper]_vars

\* C24: on a discrete track the sleeper deflection U[nx + i, n] at every
\* non-mount node i is zero in every column, whatever force is applied.
C24_NonMountSleepersRest ==
    (t >= 1 /\ track.cls \in SimpleClasses)
        => \A i \in 0..(discr.nx - 1) :
              MountsAtNode(i) = {}
                 => defl.u1[discr.nx + i] = "zero" /\ defl.u0[discr.nx + i] = "zero"

----------------------------------------------------------------------------
(* Postprocessing (rolland/postprocessing.py)                              *)
(*                                                                         *)
(* The results a Response or a TDR is built on are a finished Deflection:  *)
(* results.discr (dx in mm, nx, nt), results.excitation_index,             *)
(* results.track with its mount_prop, and the deflection buffer of 2 nx    *)
(* rows.  post holds the object's traits x_resp, ind_resp, x_tdr, ind_tdr  *)
(* and rows, the rows of the buffer read so far.                           *)

\* the multiples of l_s in find_tdr_points, in quarters
TdrQuarters == <<2, 3, 4, 5, 6, 7, 8, 9, 10, 11, 12, 14, 16, 18, 22, 26, 30, 34,
                 42, 50, 66, 82, 98, 122, 146, 170, 194, 218, 266>>
\* l_s = 0.6
SleeperDistance == 600
\* the indices of x_sc in the measurement points after x_sc[4]
TdrCentres == <<5, 6, 7, 8, 10, 12, 16, 20, 24, 30, 36, 42, 48, 54, 66>>

PostDxSet == {150, 300, 600}
PostNxSet == {5, 140, 270}
PostExcSet == {0, 2}
PostMounts == {3, 70}
XRespSet == {<<100>>, <<-400>>, <<25000>>, <<100000>>}
IndRespSet == {<<1>>, <<-1>>, <<4, 7>>}
PostClasses == {"ContSlabSingleRailTrack", "ArrangedSlabSingleRailTrack"}

\* a List trait with allow_none: None, or the list given
NoneList == [given |-> FALSE, list |-> <<>>]
GivenList(l) == [given |-> TRUE, list |-> l]

postFrame == <<l_track, glob, excit, discr, force, defl, fill, excitation_index,
               excitation_now, f, t, nsolves, nwrites, reads, wrote, trackVars,
               arrVars>>

\* Response(results=..., x_resp=..., ind_resp=...) or TDR(results=...) before
\* its __init__ has run
InitPost ==
    /\ pc = "p_new"
    /\ err = ""
    /\ \E dx \in PostDxSet, nx \in PostNxSet :
          /\ discr = [dx |-> RInt(dx), nx |-> nx, nt |-> 2, dt |-> RefDt]
          /\ l_track = (nx - 1) * dx
    /\ \E e \in PostExcSet : excitation_index = [isList |-> FALSE, elems |-> <<e>>]
    /\ \E cls \in PostClasses, n \in PostMounts :
          /\ track = [cls |-> cls]
          /\ mount_prop =
                IF cls \in ArrangedClasses
                THEN [keys |-> [i \in 1..n |-> (i - 1) * SleeperDistance],
                      val |-> [k \in {(i - 1) * SleeperDistance : i \in 1..n}
                                 |-> <<1, 0, 0>>]]
                ELSE EmptyDict
    /\ \/ \E xr \in {NoneList} \cup {GivenList(l) : l \in XRespSet},
             ir \in {NoneList} \cup {GivenList(l) : l \in IndRespSet} :
             post = [cls |-> "Response", x_resp |-> xr, ind_resp |-> ir,
                     x_tdr |-> <<>>, ind_tdr |-> <<>>, rows |-> <<>>]
       \/ post = [cls |-> "TDR", x_resp |-> NoneList, ind_resp |-> NoneList,
                  x_tdr |-> <<>>, ind_tdr |-> <<>>, rows |-> <<>>]
    /\ excit = [kind |-> "none"]
    /\ fill = "zero"
    /\ force = <<>>
    /\ defl = <<>>
    /\ excitation_now = [isList |-> FALSE, elems |-> <<0>>]
    /\ f = <<>>
    /\ t = 0
    /\ nsolves = 0
    /\ nwrites = <<>>
    /\ reads = {}
    /\ wrote = -1
    /\ x = 0
    /\ gens = <<>>
    /\ ncalc = 0
    /\ slab_set = TRUE
    /\ glob = [np_random |-> "initial", py_random |-> "initial",
               slab_ms |-> IF track.cls \in SlabClasses THEN RigidMs ELSE 0]
    /\ ArrIdle

\* exc_ind = int(self.results.excitation_index)
ExcInd == excitation_index.elems[1]

\* floor(p)
RatFloorSigned(p) == IF p.n >= 0 THEN p.n \div p.d ELSE -((-p.n + p.d - 1) \div p.d)

\* rint(p) rounds to the nearest integer.  Where the exact quotient lies
\* half way between two integers the double quotient may lie on either
\* side of the tie (0.9 / 0.6 is 1.4999999999999998): both neighbours are
\* possible results.
RintResults(p) ==
    LET fl == RatFloorSigned(p)
        twice == 2 * (p.n - fl * p.d)
    IN  IF twice < p.d THEN {fl}
        ELSE IF twice > p.d THEN {fl + 1}
        ELSE {fl, fl + 1}

\* round(p, 5) of a length in metres, p in mm: the nearest multiple of
\* 0.01 mm, ties to even
RoundTo5(p) ==
    LET q == RatMul(p, RInt(100))
        fl == RatFloorSigned(q)
        twice == 2 * (q.n - fl * q.d)
        near == IF twice < q.d THEN fl
                ELSE IF twice > q.d THEN fl + 1
                ELSE IF fl % 2 = 0 THEN fl ELSE fl + 1
    IN  Rat(near, 100)

\* [int(x / dx) for x in x_resp]
IndOfPositions(xr, dx) == [i \in 1..Len(xr) |-> RatTrunc(RatDiv(RInt(xr[i]), dx))]
\* [x * dx for x in ind_resp]
PositionsOfInd(ir, dx) == [i \in 1..Len(ir) |-> RatMul(RInt(ir[i]), dx)]

\* for ind in ind_resp: defl = deflection[ind, :nt], from the k-th index
\* on: the rows read, until an index is out of range for the 2 nx rows
RECURSIVE ReadRows(_, _, _)
ReadRows(ind, k, nrows) ==
    IF k > Len(ind) \/ ~IndexInBounds(ind[k], nrows) THEN <<>>
    ELSE <<IndexRow(ind[k], nrows)>> \o ReadRows(ind, k + 1, nrows)
AllInBounds(ind, nrows) == \A k \in 1..Len(ind) : IndexInBounds(ind[k], nrows)

\* Response.__init__: calculate_response
calculate_response ==
    /\ pc = "p_new"
    /\ post.cls = "Response"
    /\ LET dx == discr.dx
           xr == IF ~post.x_resp.given /\ ~post.ind_resp.given
                 THEN <<RatMul(dx, RInt(ExcInd))>>
                 ELSE IF ~post.x_resp.given
                 THEN PositionsOfInd(post.ind_resp.list, dx)
                 ELSE [i \in 1..Len(post.x_resp.list) |-> RInt(post.x_resp.list[i])]
           ir == IF ~post.x_resp.given /\ ~post.ind_resp.given
                 THEN <<RatTrunc(RatDiv(xr[1], dx))>>
                 ELSE IF ~post.x_resp.given
                 THEN post.ind_resp.list
                 ELSE IndOfPositions(post.x_resp.list, dx)
       IN  /\ post' = [post EXCEPT !.x_resp = GivenList(xr), !.ind_resp = GivenList(ir),
                                   !.rows = ReadRows(ir, 1, 2 * discr.nx)]
           /\ IF AllInBounds(ir, 2 * discr.nx)
              THEN pc' = "responded" /\ UNCHANGED err
              ELSE pc' = "failed" /\ err' = "IndexError"
    /\ UNCHANGED postFrame

\* x_s[j], x_sc[j] (0-based) for the mounting positions keys and the
\* left sleeper idx_s (0-based)
SleeperOffset(keys, idx_s, j) == RInt(keys[idx_s + j + 1] - keys[idx_s + 1])
SleeperCentre(keys, idx_s, j) ==
    RatDiv(RatAdd(SleeperOffset(keys, idx_s, j), SleeperOffset(keys, idx_s, j + 1)),
           RInt(2))
\* tdr_points_betw1(idx), tdr_points_betw2(dx)
tdr_points_betw1(keys, idx_s, idx) ==
    RatAdd(RatDiv(RatAdd(SleeperOffset(keys, idx_s, idx + 1),
                         RatNeg(SleeperCentre(keys, idx_s, idx))), RInt(2)),
           SleeperCentre(keys, idx_s, idx))
tdr_points_betw2(keys, idx_s, d) ==
    RatAdd(RatDiv(RatAdd(SleeperCentre(keys, idx_s, d),
                         RatNeg(SleeperOffset(keys, idx_s, d))), RInt(2)),
           SleeperOffset(keys, idx_s, d))

\* self.x_tdr of an arranged track
ArrangedXTdr(keys, idx_s) ==
    LET s(j) == SleeperOffset(keys, idx_s, j)
        c(j) == SleeperCentre(keys, idx_s, j)
        b1(j) == tdr_points_betw1(keys, idx_s, j)
        b2(j) == tdr_points_betw2(keys, idx_s, j)
        pts == <<c(0), b1(0), s(1), b2(1), c(1), b1(1), s(2), b2(2), c(2), b1(2),
                 s(3), c(3), s(4), c(4)>>
               \o [k \in 1..Len(TdrCentres) |-> c(TdrCentres[k])]
    IN  [k \in 1..Len(pts) |-> RatAdd(pts[k], RatNeg(c(0)))]

\* self.x_tdr of the other tracks: x_tdr * l_s - l_s / 2
UniformXTdr ==
    [k \in 1..Len(TdrQuarters) |->
        RatAdd(Rat(TdrQuarters[k] * SleeperDistance, 4), RatNeg(Rat(SleeperDistance, 2)))]

\* the possible lists rint(q / dx) + exc_ind of the first k quotients
RECURSIVE IndTdrResults(_, _, _, _)
IndTdrResults(q, dx, exc, k) ==
    IF k = 0 THEN {<<>>}
    ELSE {Append(head, r + exc) : head \in IndTdrResults(q, dx, exc, k - 1),
                                 r \in RintResults(RatDiv(q[k], dx))}

\* the 0-based positions of ind_mp < exc_ind
LeftMounts(keys, dx, exc) ==
    {i \in 0..(Len(keys) - 1) : RatTrunc(RatDiv(RInt(keys[i + 1]), dx)) < exc}

\* TDR.__init__, first call: find_tdr_points.  where(...)[0][-1] raises
\* IndexError when no mount lies left of the excitation, x_sc[66] when
\* fewer than 67 mounts follow the left sleeper.
find_tdr_points ==
    /\ pc = "p_new"
    /\ post.cls = "TDR"
    /\ IF track.cls \in ArrangedClasses
       THEN LET keys == mount_prop.keys
                left == LeftMounts(keys, discr.dx, ExcInd)
            IN  IF left = {} \/ Max(left) + 68 > Len(keys)
                THEN /\ pc' = "failed"
                     /\ err' = "IndexError"
                     /\ UNCHANGED post
                ELSE LET xt == ArrangedXTdr(keys, Max(left))
                         rounded == [k \in 1..Len(xt) |-> RoundTo5(xt[k])]
                     IN  /\ \E ind \in IndTdrResults(rounded, discr.dx, ExcInd, Len(xt)) :
                               post' = [post EXCEPT !.x_tdr = xt, !.ind_tdr = ind]
                         /\ pc' = "tdr_points"
                         /\ UNCHANGED err
       ELSE /\ \E ind \in IndTdrResults(UniformXTdr, discr.dx, ExcInd, Len(UniformXTdr)) :
                  post' = [post EXCEPT !.x_tdr = UniformXTdr, !.ind_tdr = ind]
            /\ pc' = "tdr_points"
            /\ UNCHANGED err
    /\ UNCHANGED postFrame

\* TDR.__init__, second call: calculate_tdr builds
\* Response(results=self.results, ind_resp=self.ind_tdr) and sums over
\* all its rows
calculate_tdr ==
    /\ pc = "tdr_points"
    /\ post' = [post EXCEPT !.rows = ReadRows(post.ind_tdr, 1, 2 * discr.nx)]
    /\ IF AllInBounds(post.ind_tdr, 2 * discr.nx)
       THEN pc' = "tdr_done" /\ UNCHANGED err
       ELSE pc' = "failed" /\ err' = "IndexError"
    /\ UNCHANGED postFrame

NextPost ==
    \/ calculate_response
    \/ find_tdr_points
    \/ calculate_tdr

SpecPost == InitPost /\ [][NextPost]_vars

\* the indices the object reads the deflection buffer with
PostIndices == IF post.cls = "TDR" THEN post.ind_tdr ELSE post.ind_resp.list
PostRan == pc \in {"responded", "tdr_done", "failed"}

\* C16: every row Response or TDR reads from the deflection buffer is a
\* rail row in [0, nx): no index is negative or beyond the rail rows, and
\* postprocessing does not fail with an out-of-range index.
C16_ReadsRailRowsOnly ==
    PostRan
        => /\ err # "IndexError"
           /\ \A k \in 1..Len(post.rows) : post.rows[k] \in 0..(discr.nx - 1)
           /\ \A k \in 1..Len(PostIndices) : PostIndices[k] \in 0..(discr.nx - 1)

\* C30: for an arranged track whose mounting distances are all 0.6 m (a
\* mount left of the excitation node, at least 68 mounts from it onwards)
\* the 29 offsets derived from the mounting geometry equal, entry by entry,
\* the closed-form offsets x_k * 0.6 - 0.3 (first 0, strictly increasing),
\* and the arranged branch of find_tdr_points selects the measurement
\* nodes the closed-form branch selects.
C30_ArrangedMatchesUniform ==
    (post.cls = "TDR" /\ track.cls \in ArrangedClasses /\ post.ind_tdr # <<>>)
        => /\ post.x_tdr = UniformXTdr
           /\ post.x_tdr[1] = RInt(0)
           /\ \A k \in 1..(Len(post.x_tdr) - 1) :
                 RatLess(post.x_tdr[k], post.x_tdr[k + 1])
           /\ \A u \in IndTdrResults(UniformXTdr, discr.dx, ExcInd, Len(UniformXTdr)) :
                 post.ind_tdr = u

====
